---- MODULE Spec2Model ----
(***************************************************************************)
(* Model of go-wyvern/leego: the request context (src/context.go) and the  *)
(* validation middleware (src/middleware/validator.go, middleware.go).     *)
(*                                                                         *)
(* Go strings are byte sequences: a string is modelled as the sequence of  *)
(* the bytes of its UTF-8 encoding, a "character" as one code point.       *)
(* Error values are records of one fixed shape so that they compare.       *)
(***************************************************************************)
EXTENDS Integers, Sequences, FiniteSets, TLC

VARIABLES
    chain,      \* registered validation middleware, outermost first
    served,     \* <<>> before traffic, <<c>> the context of the last request
    log,        \* what ran while the last request went through the chain
    result,     \* the LeegoError the composed chain returned for it
    ctx,        \* one leegoContext: a record of the struct's fields
    last,       \* the last operation applied to ctx, and its arguments
    flight      \* the requests inside the handler of chain[1], statement by statement

mwVars  == <<chain, served, log, result, flight>>
ctxVars == <<ctx, last>>
vars    == <<chain, served, log, result, ctx, last, flight>>

(***************************************************************************)
(* Bounds.                                                                 *)
(***************************************************************************)
MaxChain == 3
MaxLangLen == 5
MaxParams == 2

RECURSIVE SeqsUpTo(_, _)
SeqsUpTo(S, n) ==
    IF n = 0 THEN {<<>>}
    ELSE LET shorter == SeqsUpTo(S, n - 1)
         IN  shorter \cup {Append(q, x) : q \in shorter, x \in S}

(***************************************************************************)
(* Strings as UTF-8 byte sequences.                                        *)
(***************************************************************************)
Utf8(r) ==
    IF r < 128 THEN <<r>>
    ELSE IF r < 2048 THEN <<192 + (r \div 64), 128 + (r % 64)>>
    ELSE <<224 + (r \div 4096), 128 + ((r \div 64) % 64), 128 + (r % 64)>>

RECURSIVE GoString(_)
GoString(runes) ==
    IF runes = <<>> THEN <<>>
    ELSE Utf8(Head(runes)) \o GoString(Tail(runes))

\* "zh-CN" and "en-US" as code points
ZhCN == <<122, 104, 45, 67, 78>>
EnUS == <<101, 110, 45, 85, 83>>

(***************************************************************************)
(* Error values.                                                           *)
(*   kind : "nil", "error", "ParamsError", "ParamsError.Tr", "panic"       *)
(*   text : the message                                                    *)
(*   lang : the locale the text was translated to, <<>> when untranslated  *)
(*   by, name : the formatter that wrapped it and the name it was given    *)
(***************************************************************************)
Err(kind, text) ==
    [kind |-> kind, text |-> text, lang |-> <<>>, by |-> "", name |-> ""]

Nil == Err("nil", "")
Panic == Err("panic", "nil func call")
HandlerError == Err("error", "handler failed")

Ev(op, at, err, lng, name) ==
    [op |-> op, at |-> at, err |-> err, lang |-> lng, name |-> name]

(***************************************************************************)
(* middleware.go                                                           *)
(***************************************************************************)
ValidateName == "Validate"
SkipPath == "/skip"

defaultSkipper(c) == FALSE

defaultFormatLeegoError(err, middlewareName) == err

\* a user-supplied Middleware: skips one path, wraps errors with the name
customSkipper(c) == c.path = SkipPath

customFormatLeegoError(err, middlewareName) ==
    [err EXCEPT !.by = "custom", !.name = middlewareName]

DefaultValidatorConfig ==
    [Skipper |-> "defaultSkipper", FormatLeegoError |-> "defaultFormatLeegoError",
     Name |-> ValidateName, Validate |-> "nil"]

\* calling a func value; a nil func value panics
CallSkipper(f, c) ==
    CASE f = "defaultSkipper" -> defaultSkipper(c)
      [] f = "customSkipper"  -> customSkipper(c)

CallFormatLeegoError(f, err, name) ==
    CASE f = "defaultFormatLeegoError" -> defaultFormatLeegoError(err, name)
      [] f = "customFormatLeegoError"  -> customFormatLeegoError(err, name)
      [] OTHER                         -> Panic

(***************************************************************************)
(* The collaborators of the validation middleware.                         *)
(***************************************************************************)
\* validator.Validate: nil, a *validator.ParamsError, or another error
validator_Validate(formParams, v) ==
    CASE formParams = "valid"     -> Nil
      [] formParams = "invalid"   -> Err("ParamsError", "form field invalid")
      [] formParams = "malformed" -> Err("error", "form malformed")

\* validator.UrlValidator on the params map
validator_UrlValidator(params, v) ==
    CASE params = "valid"     -> Nil
      [] params = "invalid"   -> Err("ParamsError", "path param invalid")
      [] params = "malformed" -> Err("error", "params malformed")

\* validator.Find: the rule set registered for a method and path, or nil
validator_Find(method, path) ==
    IF path = "/open" THEN "nil" ELSE "rules"

\* pErr.Text = i18n.Translate(pErr.Text, lang)
i18n_Translate(pErr, lng) == [pErr EXCEPT !.lang = lng]

\* pErr.Tr()
Tr(pErr) == [pErr EXCEPT !.kind = "ParamsError.Tr"]

(***************************************************************************)
(* validator.go: Validator, ValidatorWithConfig and the handler it builds. *)
(***************************************************************************)
Validator(v, m) ==
    [Skipper |-> m.Skipper, FormatLeegoError |-> m.FormatLeegoError,
     Name |-> ValidateName, Validate |-> v]

ValidatorWithConfig(config) ==
    IF config.Skipper = "nil"
    THEN [config EXCEPT !.Skipper = DefaultValidatorConfig.Skipper]
    ELSE config

\* return next(c): next's log follows the call, its result is returned as is
CallNext_Swallows(at, next) ==
    [log |-> <<Ev("next", at, Nil, <<>>, "")>> \o next.log
             \o <<Ev("return", at, Nil, <<>>, "")>>,
     ret |-> Nil]

CallNext(at, next) ==
    [log |-> <<Ev("next", at, Nil, <<>>, "")>> \o next.log
             \o <<Ev("return", at, next.ret, <<>>, "")>>,
     ret |-> next.ret]

\* the two branches taken on a validation error
FailWith(config, at, c, err) ==
    IF err.kind = "ParamsError"
    THEN LET pErr == i18n_Translate(err, c.lang)
             ret  == CallFormatLeegoError(config.FormatLeegoError, Tr(pErr), config.Name)
         IN  [log |-> <<Ev("translate", at, err, c.lang, ""),
                        Ev("format", at, Tr(pErr), <<>>, config.Name),
                        Ev("return", at, ret, <<>>, "")>>,
              ret |-> ret]
    ELSE LET ret == CallFormatLeegoError(config.FormatLeegoError, err, config.Name)
         IN  [log |-> <<Ev("format", at, err, <<>>, config.Name),
                        Ev("return", at, ret, <<>>, "")>>,
              ret |-> ret]

Prepend(evs, out) == [log |-> evs \o out.log, ret |-> out.ret]

\* func(c leego.Context) leego.LeegoError, for the layer at position `at`;
\* next is what next(c) logs and returns when it is called
ValidatorHandler_FailureGoesOn(config, at, c, next) ==
    LET skipEv == <<Ev("Skipper", at, Nil, <<>>, "")>>
        bodyEv == <<Ev("Validate", at, Nil, <<>>, "")>>
        urlEv  == <<Ev("UrlValidator", at, Nil, <<>>, "")>>
    IN
    IF CallSkipper(config.Skipper, c) \/ config.Validate = "nil"
    THEN Prepend(skipEv, CallNext(at, next))
    ELSE Prepend(skipEv \o bodyEv \o urlEv, CallNext(at, next))

ValidatorHandler(config, at, c, next) ==
    LET skipEv == <<Ev("Skipper", at, Nil, <<>>, "")>>
        bodyEv == <<Ev("Validate", at, Nil, <<>>, "")>>
        urlEv  == <<Ev("UrlValidator", at, Nil, <<>>, "")>>
    IN
    IF CallSkipper(config.Skipper, c)
    THEN Prepend(skipEv, CallNext(at, next))
    ELSE IF config.Validate = "nil"
    THEN Prepend(skipEv, CallNext(at, next))
    ELSE LET err == validator_Validate(c.form, config.Validate) IN
         IF err # Nil
         THEN Prepend(skipEv \o bodyEv, FailWith(config, at, c, err))
         ELSE LET err2 == validator_UrlValidator(c.params, config.Validate) IN
              IF err2 # Nil
              THEN Prepend(skipEv \o bodyEv \o urlEv, FailWith(config, at, c, err2))
              ELSE Prepend(skipEv \o bodyEv \o urlEv, CallNext(at, next))

(***************************************************************************)
(* validator.go, the variant that looks the rule set up on every request   *)
(* and keeps it in the config the closure captured.  ValidatorHandler_Find *)
(* is the handler run from its first statement to its return with no other *)
(* request in it; RunSkipper .. RunUrlValidator below are its statements   *)
(* one at a time, for requests that run concurrently.                      *)
(***************************************************************************)
Validator_Find(m) ==
    [Skipper |-> m.Skipper, FormatLeegoError |-> m.FormatLeegoError,
     Name |-> ValidateName, Validate |-> "nil"]

ValidatorWithConfig_Find(config) ==
    IF config.Skipper = "nil"
    THEN [config EXCEPT !.Skipper = DefaultValidatorConfig.Skipper]
    ELSE config

FailWith_Find(config, at, c, err) ==
    LET ret == CallFormatLeegoError(config.FormatLeegoError, err, config.Name)
    IN  [log |-> <<Ev("format", at, err, <<>>, config.Name),
                   Ev("return", at, ret, <<>>, "")>>,
         ret |-> ret]

ValidatorHandler_Find(config, at, c, next) ==
    LET skipEv == <<Ev("Skipper", at, Nil, <<>>, "")>>
        findEv == <<Ev("Find", at, Nil, <<>>, "")>>
        bodyEv == <<Ev("Validate", at, Nil, <<>>, "")>>
        urlEv  == <<Ev("UrlValidator", at, Nil, <<>>, "")>>
        \* config after the assignment of line 48; no other request writes it
        written == [config EXCEPT !.Validate = validator_Find(c.method, c.path)]
    IN
    IF CallSkipper(config.Skipper, c)
    THEN Prepend(skipEv, CallNext(at, next))
    ELSE IF written.Validate = "nil"
    THEN Prepend(skipEv \o findEv, CallNext(at, next))
    ELSE LET err == validator_Validate(c.form, written.Validate) IN
         IF err # Nil
         THEN Prepend(skipEv \o findEv \o bodyEv, FailWith_Find(config, at, c, err))
         ELSE LET err2 == validator_UrlValidator(c.params, written.Validate) IN
              IF err2 # Nil
              THEN Prepend(skipEv \o findEv \o bodyEv \o urlEv,
                           FailWith_Find(config, at, c, err2))
              ELSE Prepend(skipEv \o findEv \o bodyEv \o urlEv, CallNext(at, next))

\* config.Validate = validator.Find(...): the captured config after the call
ConfigAfter_Find(config, c) ==
    IF CallSkipper(config.Skipper, c) THEN config
    ELSE [config EXCEPT !.Validate = validator_Find(c.method, c.path)]

(***************************************************************************)
(* The terminal handler and the composed chain.                            *)
(***************************************************************************)
TerminalHandler(c) ==
    LET ret == IF c.handlerFails THEN HandlerError ELSE Nil
    IN  [log |-> <<Ev("handler", 0, Nil, <<>>, ""), Ev("return", 0, ret, <<>>, "")>>,
         ret |-> ret]

\* wrap = handler; wrap = m3(wrap); wrap = m2(wrap); wrap = m1(wrap)
RECURSIVE RunChain(_, _, _)
RunChain(ch, i, c) ==
    IF i > Len(ch) THEN TerminalHandler(c)
    ELSE IF ch[i].variant = "Find"
    THEN ValidatorHandler_Find(ch[i].config, i, c, RunChain(ch, i + 1, c))
    ELSE ValidatorHandler(ch[i].config, i, c, RunChain(ch, i + 1, c))

(***************************************************************************)
(* context.go: leegoContext.                                               *)
(*   context   : [base, vals]; base "nil" is the nil interface, base       *)
(*               "Background" is context.Background(); vals[k] is the      *)
(*               value the WithValue chain holds for k, "nil" for none     *)
(*   data      : [isNil, kv]; kv[k] = "nil" when k is not in the map       *)
(*   lang      : a byte sequence                                           *)
(***************************************************************************)
Keys == {"k1", "k2"}
Values == {"v1"}
Requests == {"req1", "req2"}
Responses == {"res1", "res2"}
Handlers == {"userHandler"}
NotFoundHandler == "NotFoundHandler"
ParamsMaps == {"paramsOfRoute"}

NoValues == [k \in Keys |-> "nil"]

\* the zero value of the struct, as new(leegoContext) makes it
ZeroContext ==
    [context   |-> [base |-> "nil", vals |-> NoValues],
     request   |-> "nil",
     response  |-> "nil",
     pnames    |-> <<>>,
     pvalues   |-> <<>>,
     paramsMap |-> "nil",
     handler   |-> "nil",
     lang      |-> <<>>,
     data      |-> [isNil |-> TRUE, kv |-> NoValues]]

Language(c) == c.lang

SetLang(c, s) ==
    IF s # <<>> /\ Len(s) >= 5
    THEN [c EXCEPT !.lang = SubSeq(s, 1, 5)]
    ELSE [c EXCEPT !.lang = GoString(ZhCN)]

SetParamsMap(c, m) == [c EXCEPT !.paramsMap = m]

GetParamsMap(c) == c.paramsMap

\* c.data[key] = data: assignment to an entry of a nil map panics
SetDataPanics(c) == c.data.isNil

SetData(c, key, v) ==
    IF SetDataPanics(c) THEN c ELSE [c EXCEPT !.data.kv[key] = v]

GetData(c, key) == c.data.kv[key]

Request(c) == c.request

Response(c) == c.response

\* a result that is either a value or a run-time panic
Ok(v) == [panic |-> FALSE, value |-> v]
Panics == [panic |-> TRUE, value |-> ""]

P(c, i) ==
    LET l == Len(c.pnames) IN
    IF i < l
    THEN IF i >= 0 /\ i < Len(c.pvalues) THEN Ok(c.pvalues[i + 1]) ELSE Panics
    ELSE Ok("")

RECURSIVE ParamFrom(_, _, _)
ParamFrom(c, name, i) ==
    IF i >= Len(c.pnames) THEN Ok("")
    ELSE IF c.pnames[i + 1] = name /\ i < Len(c.pnames)
         THEN IF i < Len(c.pvalues) THEN Ok(c.pvalues[i + 1]) ELSE Panics
         ELSE ParamFrom(c, name, i + 1)

Param(c, name) == ParamFrom(c, name, 0)

ParamNames(c) == c.pnames

SetParamNames(c, names) == [c EXCEPT !.pnames = names]

ParamValues(c) == c.pvalues

SetParamValues(c, values) == [c EXCEPT !.pvalues = values]

\* context.WithValue(c.context, key, val)
Set(c, key, val) == [c EXCEPT !.context.vals[key] = val]

\* c.context.Value(key): a method call on the nil interface panics, and so
\* does the walk up a WithValue chain whose root is nil
Get(c, key) ==
    IF c.context.vals[key] # "nil" THEN Ok(c.context.vals[key])
    ELSE IF c.context.base = "nil" THEN Panics
    ELSE Ok("nil")

Context(c) == c.context

SetContext(c, x) == [c EXCEPT !.context = x]

Handler(c) == c.handler

SetHandler(c, h) == [c EXCEPT !.handler = h]

Reset_KeepsContext(c, req, res) ==
    [c EXCEPT !.request  = req,
              !.response = res,
              !.handler  = NotFoundHandler,
              !.data     = [isNil |-> FALSE, kv |-> NoValues]]

Reset(c, req, res) ==
    [c EXCEPT !.context  = [base |-> "Background", vals |-> NoValues],
              !.request  = req,
              !.response = res,
              !.handler  = NotFoundHandler,
              !.data     = [isNil |-> FALSE, kv |-> NoValues]]

(***************************************************************************)
(* Registration and dispatch of the middleware chain.                      *)
(***************************************************************************)
FuncSkippers == {"defaultSkipper", "customSkipper"}
FuncFormatters == {"defaultFormatLeegoError", "customFormatLeegoError"}
RuleSets == {"rules"}
Outcomes == {"valid", "invalid", "malformed"}

\* every ValidatorConfig a caller can pass, unset fields included
Configs ==
    [Skipper : FuncSkippers \cup {"nil"},
     FormatLeegoError : FuncFormatters \cup {"nil"},
     Name : {"", ValidateName},
     Validate : RuleSets \cup {"nil"}]

\* the implementations of the Middleware interface: DefaultMiddleware and a
\* user's own
DefaultMiddleware ==
    [Skipper |-> "defaultSkipper", FormatLeegoError |-> "defaultFormatLeegoError"]
CustomMiddleware ==
    [Skipper |-> "customSkipper", FormatLeegoError |-> "customFormatLeegoError"]
Middlewares == {DefaultMiddleware, CustomMiddleware}

\* what the middleware and the terminal handler read from a context
Contexts ==
    [method : {"POST"},
     path : {SkipPath, "/users", "/open"},
     form : Outcomes,
     params : Outcomes,
     lang : {GoString(ZhCN), GoString(EnUS)},
     handlerFails : BOOLEAN]

\* goroutines serving requests, and a request that has not arrived
RequestIds == {"r1", "r2"}

NoContext ==
    [method |-> "", path |-> "", form |-> "", params |-> "", lang |-> <<>>,
     handlerFails |-> FALSE]

\* a request in the handler: pc is the statement it is at, seen, body and url
\* are the values of config.Validate it read at the nil test and passed to
\* validator.Validate and validator.UrlValidator ("unread" before the read)
Idle ==
    [pc |-> "idle", c |-> NoContext, seen |-> "unread", body |-> "unread",
     url |-> "unread", next |-> FALSE, ret |-> Nil]

MwInit ==
    /\ chain = <<>>
    /\ served = <<>>
    /\ log = <<>>
    /\ result = Nil
    /\ flight = [r \in RequestIds |-> Idle]

\* lee.Use(middleware.ValidatorWithConfig(config)), as the only middleware
UseValidatorWithConfig(config) ==
    /\ served = <<>>
    /\ chain = <<>>
    /\ chain' = <<[variant |-> "Fixed", given |-> config,
                   config |-> ValidatorWithConfig(config)]>>
    /\ UNCHANGED <<served, log, result, ctx, last, flight>>

\* the same with the variant that looks the rule set up
UseValidatorWithConfig_Find(config) ==
    /\ served = <<>>
    /\ chain = <<>>
    /\ chain' = <<[variant |-> "Find", given |-> config,
                   config |-> ValidatorWithConfig_Find(config)]>>
    /\ UNCHANGED <<served, log, result, ctx, last, flight>>

\* lee.Use(middleware.Validator(v, m))
UseValidator(v, m) ==
    /\ served = <<>>
    /\ Len(chain) < MaxChain
    /\ chain' = Append(chain, [variant |-> "Fixed", given |-> Validator(v, m),
                               config |-> ValidatorWithConfig(Validator(v, m))])
    /\ UNCHANGED <<served, log, result, ctx, last, flight>>

\* one request goes through the composed chain while no other request is in
\* it; a layer of the looking-up variant that was entered has assigned its
\* captured config.  Requests that overlap are the Arrive and Run actions.
Serve(c) ==
    /\ served' = <<c>>
    /\ LET out == RunChain(chain, 1, c)
           entered(i) == \E j \in DOMAIN out.log :
                             out.log[j].at = i /\ out.log[j].op = "Skipper"
       IN  /\ log' = out.log
           /\ result' = out.ret
           /\ chain' = [i \in DOMAIN chain |->
                          IF chain[i].variant = "Find" /\ entered(i)
                          THEN [chain[i] EXCEPT !.config = ConfigAfter_Find(@, c)]
                          ELSE chain[i]]
    /\ UNCHANGED <<ctx, last, flight>>

(***************************************************************************)
(* The handler of the looking-up variant, one statement at a time, for     *)
(* requests served by concurrent goroutines.  chain[1].config is the       *)
(* config the closure captured: every request reads and writes the same    *)
(* one.  The accesses are unsynchronized; config.Validate is one word, so  *)
(* a read yields the value of one of the writes, which the interleaving of *)
(* the statements produces.                                                *)
(***************************************************************************)
RaceContexts ==
    {c \in Contexts : c.lang = GoString(ZhCN) /\ ~c.handlerFails}

\* what validator.Validate and validator.UrlValidator may do with a nil
\* rule set: find nothing to object to, or fail on the nil
NilRulesError == Err("panic", "nil rule set")

ValidateOutcomes(formParams, v) ==
    IF v = "nil" THEN {Nil, NilRulesError} ELSE {validator_Validate(formParams, v)}

UrlValidatorOutcomes(params, v) ==
    IF v = "nil" THEN {Nil, NilRulesError} ELSE {validator_UrlValidator(params, v)}

Shared == chain[1].config

Returns(r, fields, ret) ==
    flight' = [flight EXCEPT ![r] = [fields EXCEPT !.pc = "done", !.ret = ret]]

ReturnsNext(r, fields) ==
    Returns(r, [fields EXCEPT !.next = TRUE], TerminalHandler(fields.c).ret)

\* the router calls the handler with the context of a request
Arrive(r, c) ==
    /\ chain # <<>>
    /\ chain[1].variant = "Find"
    /\ flight[r].pc = "idle"
    /\ flight' = [flight EXCEPT ![r] = [Idle EXCEPT !.pc = "Skipper", !.c = c]]
    /\ UNCHANGED <<chain, served, log, result, ctx, last>>

\* if config.Skipper(c) { return next(c) }
RunSkipper(r) ==
    /\ flight[r].pc = "Skipper"
    /\ IF CallSkipper(Shared.Skipper, flight[r].c)
       THEN ReturnsNext(r, flight[r])
       ELSE flight' = [flight EXCEPT ![r].pc = "Find"]
    /\ UNCHANGED <<chain, served, log, result, ctx, last>>

\* config.Validate = validator.Find(c.Request().Method(), c.Path())
RunFind(r) ==
    /\ flight[r].pc = "Find"
    /\ chain' = [chain EXCEPT ![1].config.Validate =
                     validator_Find(flight[r].c.method, flight[r].c.path)]
    /\ flight' = [flight EXCEPT ![r].pc = "nil?"]
    /\ UNCHANGED <<served, log, result, ctx, last>>

\* if config.Validate==nil { return next(c) }
RunNilTest(r) ==
    /\ flight[r].pc = "nil?"
    /\ LET read == [flight[r] EXCEPT !.seen = Shared.Validate] IN
       IF Shared.Validate = "nil"
       THEN ReturnsNext(r, read)
       ELSE flight' = [flight EXCEPT ![r] = [read EXCEPT !.pc = "Validate"]]
    /\ UNCHANGED <<chain, served, log, result, ctx, last>>

\* err := validator.Validate(c.Request().FormParams(), config.Validate)
\* if err != nil { return config.FormatLeegoError(err, config.Name) }
RunValidate(r) ==
    /\ flight[r].pc = "Validate"
    /\ LET read == [flight[r] EXCEPT !.body = Shared.Validate] IN
       \E err \in ValidateOutcomes(flight[r].c.form, Shared.Validate) :
           IF err # Nil
           THEN Returns(r, read,
                        CallFormatLeegoError(Shared.FormatLeegoError, err, Shared.Name))
           ELSE flight' = [flight EXCEPT ![r] = [read EXCEPT !.pc = "UrlValidator"]]
    /\ UNCHANGED <<chain, served, log, result, ctx, last>>

\* err = validator.UrlValidator(c.GetParamsMap(), config.Validate)
\* if err != nil { return config.FormatLeegoError(err, config.Name) }
\* return next(c)
RunUrlValidator(r) ==
    /\ flight[r].pc = "UrlValidator"
    /\ LET read == [flight[r] EXCEPT !.url = Shared.Validate] IN
       \E err \in UrlValidatorOutcomes(flight[r].c.params, Shared.Validate) :
           IF err # Nil
           THEN Returns(r, read,
                        CallFormatLeegoError(Shared.FormatLeegoError, err, Shared.Name))
           ELSE ReturnsNext(r, read)
    /\ UNCHANGED <<chain, served, log, result, ctx, last>>

(***************************************************************************)
(* Calls on a context.                                                     *)
(***************************************************************************)
Op(name) ==
    [op |-> name, req |-> "nil", res |-> "nil", arg |-> <<>>,
     keys |-> {}, dkeys |-> {}, key |-> "", panic |-> FALSE]

CtxInit ==
    /\ ctx = ZeroContext
    /\ last = Op("new")

\* last keeps the keys that held a value when Reset was called
CallReset(req, res) ==
    /\ ctx' = Reset(ctx, req, res)
    /\ last' = [Op("Reset") EXCEPT
                   !.req = req, !.res = res,
                   !.keys = {k \in Keys : ctx.context.vals[k] # "nil"},
                   !.dkeys = {k \in Keys : ctx.data.kv[k] # "nil"}]
    /\ UNCHANGED mwVars

CallSetLang(runes) ==
    /\ ctx' = SetLang(ctx, GoString(runes))
    /\ last' = [Op("SetLang") EXCEPT !.arg = runes]
    /\ UNCHANGED mwVars

CallSetData(key, v) ==
    /\ ctx' = SetData(ctx, key, v)
    /\ last' = [Op("SetData") EXCEPT !.key = key, !.panic = SetDataPanics(ctx)]
    /\ UNCHANGED mwVars

\* context.WithValue on a nil parent panics or builds a chain on nil,
\* depending on the context package the build links
CallSet(key, val) ==
    /\ \/ /\ ctx' = Set(ctx, key, val)
          /\ last' = [Op("Set") EXCEPT !.key = key]
       \/ /\ ctx.context.base = "nil"
          /\ ctx' = ctx
          /\ last' = [Op("Set") EXCEPT !.key = key, !.panic = TRUE]
    /\ UNCHANGED mwVars

\* the contexts a caller installs: the nil interface, context.Background(),
\* or a WithValue chain on it
GivenContexts ==
    {[base |-> "nil", vals |-> NoValues]}
        \cup [base : {"Background"}, vals : [Keys -> Values \cup {"nil"}]]

CallSetContext(x) ==
    /\ ctx' = SetContext(ctx, x)
    /\ last' = Op("SetContext")
    /\ UNCHANGED mwVars

CallSetHandler(h) ==
    /\ ctx' = SetHandler(ctx, h)
    /\ last' = Op("SetHandler")
    /\ UNCHANGED mwVars

CallSetParamNames(names) ==
    /\ ctx' = SetParamNames(ctx, names)
    /\ last' = Op("SetParamNames")
    /\ UNCHANGED mwVars

CallSetParamValues(values) ==
    /\ ctx' = SetParamValues(ctx, values)
    /\ last' = Op("SetParamValues")
    /\ UNCHANGED mwVars

CallSetParamsMap(m) ==
    /\ ctx' = SetParamsMap(ctx, m)
    /\ last' = Op("SetParamsMap")
    /\ UNCHANGED mwVars

(***************************************************************************)
(* Specifications.                                                         *)
(***************************************************************************)
Init == MwInit /\ CtxInit

\* one validation middleware, built from any config, around the handler
Next ==
    \/ \E config \in Configs : UseValidatorWithConfig(config)
    \/ \E config \in Configs : UseValidatorWithConfig_Find(config)
    \/ \E c \in Contexts : Serve(c)

Spec == Init /\ [][Next]_vars

\* a chain of validation middleware built by Validator(v, m)
NextChain ==
    \/ \E v \in RuleSets \cup {"nil"}, m \in Middlewares : UseValidator(v, m)
    \/ \E c \in Contexts : Serve(c)

SpecChain == Init /\ [][NextChain]_vars

\* the life of one pooled context
ParamNameSet == {"id"}
ParamValueSet == {"42"}
SomeLocales == {<<101, 110>>, EnUS \o <<45, 120>>}

NextCtx ==
    \/ \E req \in Requests, res \in Responses : CallReset(req, res)
    \/ \E s \in SomeLocales : CallSetLang(s)
    \/ \E k \in Keys, v \in Values : CallSetData(k, v)
    \/ \E k \in Keys, v \in Values : CallSet(k, v)
    \/ \E x \in GivenContexts : CallSetContext(x)
    \/ \E h \in Handlers : CallSetHandler(h)
    \/ \E names \in SeqsUpTo(ParamNameSet, MaxParams) : CallSetParamNames(names)
    \/ \E values \in SeqsUpTo(ParamValueSet, MaxParams) : CallSetParamValues(values)
    \/ \E m \in ParamsMaps : CallSetParamsMap(m)

SpecCtx == Init /\ [][NextCtx]_vars

\* the locale of a context: strings of one-, two- and three-byte characters
\* ("e", U+00E9, U+4E2D) and the locales of the documentation
Alphabet == {101, 233, 20013}
Locales ==
    SeqsUpTo(Alphabet, MaxLangLen)
        \cup {<<101, 110>>, EnUS, ZhCN, EnUS \o <<45, 101, 120, 116, 114, 97>>}

NextLang ==
    \/ \E req \in Requests, res \in Responses : CallReset(req, res)
    \/ \E s \in Locales : CallSetLang(s)

SpecLang == Init /\ [][NextLang]_vars

\* the path parameters of a context: the router installs names and values
\* with two separate calls, the pool resets the context between requests
RouteParamNames == {"id", "name"}
RouteParamValues == {"42", "7"}

NextParams ==
    \/ \E req \in Requests, res \in Responses : CallReset(req, res)
    \/ \E names \in SeqsUpTo(RouteParamNames, MaxParams) : CallSetParamNames(names)
    \/ \E values \in SeqsUpTo(RouteParamValues, MaxParams) : CallSetParamValues(values)

SpecParams == Init /\ [][NextParams]_vars

\* one middleware built by the looking-up variant, and requests served by
\* concurrent goroutines
NextRace ==
    \/ \E m \in Middlewares : UseValidatorWithConfig_Find(Validator_Find(m))
    \/ \E r \in RequestIds, c \in RaceContexts : Arrive(r, c)
    \/ \E r \in RequestIds : RunSkipper(r)
    \/ \E r \in RequestIds : RunFind(r)
    \/ \E r \in RequestIds : RunNilTest(r)
    \/ \E r \in RequestIds : RunValidate(r)
    \/ \E r \in RequestIds : RunUrlValidator(r)

SpecRace == Init /\ [][NextRace]_vars

(***************************************************************************)
(* Reading the log of the last request.                                    *)
(***************************************************************************)
Layers == 1..Len(chain)
HasRun == served # <<>>
Has(i, op) == \E j \in DOMAIN log : log[j].at = i /\ log[j].op = op
Count(i, op) == Cardinality({j \in DOMAIN log : log[j].at = i /\ log[j].op = op})
First(i, op) == CHOOSE j \in DOMAIN log :
                    /\ log[j].at = i /\ log[j].op = op
                    /\ \A k \in 1..(j - 1) : ~(log[k].at = i /\ log[k].op = op)
Reached(i) == Has(i, "Skipper")
RetOf(i) == log[First(i, "return")].err
\* what comes after layer i: the next layer, or the terminal handler (at 0)
After(i) == IF i < Len(chain) THEN i + 1 ELSE 0
Entered(i) == IF i = 0 THEN Has(0, "handler") ELSE Reached(i)

\* the layer's skip predicate holds for the request, or it has no rule set
Skips(i) == chain[i].given.Skipper = "customSkipper" /\ served[1].path = SkipPath

\* the rule set of layer i for the request: the configured one, or the one
\* registered for the request's method and path
Rules(i) ==
    IF chain[i].variant = "Find"
    THEN validator_Find(served[1].method, served[1].path)
    ELSE chain[i].given.Validate

Bypassed(i) == Skips(i) \/ Rules(i) = "nil"

\* the error the validators of layer i report for the request: body first
Invalid(i) ==
    LET b == validator_Validate(served[1].form, Rules(i))
    IN  IF b # Nil THEN b
        ELSE validator_UrlValidator(served[1].params, Rules(i))

Fails(i) == HasRun /\ Reached(i) /\ ~Bypassed(i) /\ Invalid(i) # Nil

\* the chain with layer i taken out
Without(ch, i) == SubSeq(ch, 1, i - 1) \o SubSeq(ch, i + 1, Len(ch))
HandlerRan(out) == \E j \in DOMAIN out.log : out.log[j].op = "handler"

(***************************************************************************)
(* C1: a validation middleware that is not skipped and has a rule set      *)
(* answers a body or path validation error without calling next, with the  *)
(* value config.FormatLeegoError returns when called with the name         *)
(* "Validate"; path validation runs only after body validation passed.     *)
(***************************************************************************)
C1_FailureIsFormattedAsValidate ==
    \A i \in Layers :
        (HasRun /\ Reached(i) /\ ~Bypassed(i)) =>
            /\ Has(i, "UrlValidator") =>
                   validator_Validate(served[1].form, Rules(i)) = Nil
            /\ Invalid(i) # Nil =>
                   /\ ~Has(i, "next")
                   /\ RetOf(i).kind # "panic"
                   /\ Has(i, "format")
                   /\ RetOf(i) = CallFormatLeegoError(chain[i].given.FormatLeegoError,
                                      log[First(i, "format")].err, "Validate")

(***************************************************************************)
(* C4: the middleware calls next at most once, and when it does its result *)
(* is next's result, nil or not, untouched by the formatter.               *)
(***************************************************************************)
C4_NextResultUnmodified ==
    \A i \in Layers :
        (HasRun /\ Reached(i)) =>
            /\ Count(i, "next") <= 1
            /\ Has(i, "next") =>
                   /\ Entered(After(i))
                   /\ RetOf(i) = RetOf(After(i))
                   /\ ~Has(i, "format")
                   /\ i = 1 => result = RetOf(After(i))

\* both validations passed and the handler returned an error
C4_Witness ==
    /\ HasRun /\ Len(chain) >= 1 /\ Reached(1)
    /\ ~Bypassed(1)
    /\ Has(1, "UrlValidator") /\ Has(1, "next")
    /\ served[1].handlerFails
    /\ result = HandlerError

(***************************************************************************)
(* C5: on a validation failure the message is translated with the          *)
(* context's Language(), before the formatter is called, exactly when the  *)
(* error is a *validator.ParamsError; any other error reaches the          *)
(* formatter as it is, untranslated.                                       *)
(***************************************************************************)
C5_TranslateOnlyStructured ==
    \A i \in Layers :
        Fails(i) =>
            /\ Count(i, "format") = 1
            /\ Has(i, "translate") <=> Invalid(i).kind = "ParamsError"
            /\ Invalid(i).kind = "ParamsError" =>
                   /\ Count(i, "translate") = 1
                   /\ log[First(i, "translate")].err = Invalid(i)
                   /\ log[First(i, "translate")].lang = served[1].lang
                   /\ First(i, "translate") < First(i, "format")
                   /\ log[First(i, "format")].err.text = Invalid(i).text
                   /\ log[First(i, "format")].err.lang = served[1].lang
            /\ Invalid(i).kind # "ParamsError" =>
                   log[First(i, "format")].err = Invalid(i)

(***************************************************************************)
(* C6: a middleware built from a config without a skip predicate never     *)
(* skips, and one built from a config without a formatter returns the raw  *)
(* error itself on a validation failure, without failing.                  *)
(***************************************************************************)
C6_UnsetFieldsDefault ==
    \A i \in Layers :
        (HasRun /\ Reached(i)) =>
            /\ (chain[i].given.Skipper = "nil" /\ Rules(i) # "nil")
                   => Has(i, "Validate")
            /\ (chain[i].given.FormatLeegoError = "nil" /\ Fails(i)) =>
                   /\ RetOf(i).kind # "panic"
                   /\ RetOf(i) = log[First(i, "format")].err

(***************************************************************************)
(* C3: the layers of a chain [m1, m2, m3] run in registration order, the   *)
(* terminal handler last; when a layer fails, the layers before it and the *)
(* layer itself have run, no later layer and no handler runs, and the      *)
(* chain returns that layer's formatted error.                             *)
(***************************************************************************)
\* positions in the log where a layer, or the handler (0), starts
Starts == {j \in DOMAIN log : log[j].op \in {"Skipper", "handler"}}

C3_RegistrationOrder ==
    HasRun =>
        /\ Reached(1) \/ (Len(chain) = 0 /\ Has(0, "handler"))
        /\ \A i \in Layers : Count(i, "Skipper") <= 1
        /\ Count(0, "handler") <= 1
        \* a layer starts after every layer registered before it has started
        /\ \A i \in Layers : Reached(i) =>
               \A h \in 1..(i - 1) :
                   Reached(h) /\ First(h, "Skipper") < First(i, "Skipper")
        /\ Has(0, "handler") =>
               \A h \in Layers :
                   Reached(h) /\ First(h, "Skipper") < First(0, "handler")
        \* a layer that does not fail hands on to the one after it
        /\ \A i \in Layers : (Reached(i) /\ ~Fails(i)) => Entered(After(i))
        \* a failing layer ends the request with its formatted error
        /\ \A i \in Layers : Fails(i) =>
               /\ \A h \in 1..i : Reached(h)
               /\ \A h \in (i + 1)..Len(chain) : ~Reached(h)
               /\ ~Has(0, "handler")
               /\ result = RetOf(i)
               /\ result.kind \notin {"nil", "panic"}
               /\ result = CallFormatLeegoError(chain[i].config.FormatLeegoError,
                                log[First(i, "format")].err, ValidateName)

\* m1 lets the request through, m2 refuses it, m3 is registered behind them
C3_Witness ==
    /\ Len(chain) = 3 /\ HasRun
    /\ Reached(1) /\ Fails(2)
    /\ chain[3].config.Validate # "nil"
    /\ result.by = "custom"

\* and a request that passes all three and reaches the handler
C3_WitnessPass ==
    /\ Len(chain) = 3 /\ HasRun
    /\ \A i \in Layers : Reached(i) /\ ~Bypassed(i)
    /\ Has(0, "handler")

(***************************************************************************)
(* Reading a context.                                                      *)
(***************************************************************************)
Indexes == 0..(MaxParams + 1)

Observable(c) ==
    [request |-> Request(c), response |-> Response(c), handler |-> Handler(c),
     get |-> [k \in Keys |-> Get(c, k)],
     getData |-> [k \in Keys |-> GetData(c, k)],
     paramNames |-> ParamNames(c), paramValues |-> ParamValues(c),
     paramsMap |-> GetParamsMap(c), language |-> Language(c),
     p |-> [i \in Indexes |-> P(c, i)],
     param |-> [n \in ParamNameSet |-> Param(c, n)]]

(***************************************************************************)
(* C7: after Reset(req, res) the context holds req and res, the not-found  *)
(* handler, a background context with no value for any key, and an empty   *)
(* non-nil data map: GetData(k) is nil for every k, and SetData(k, v) then *)
(* GetData(k) gives v without failing.                                     *)
(***************************************************************************)
C7_ResetState ==
    last.op = "Reset" =>
        /\ Request(ctx) = last.req
        /\ Response(ctx) = last.res
        /\ Handler(ctx) = NotFoundHandler
        /\ ctx.context.base = "Background"
        /\ \A k \in Keys : Get(ctx, k) = Ok("nil")
        /\ ~ctx.data.isNil
        /\ \A k \in Keys : GetData(ctx, k) = "nil"
        /\ \A k \in Keys, v \in Values :
               /\ ~SetDataPanics(ctx)
               /\ GetData(SetData(ctx, k, v), k) = v

\* Reset of a context that held values, data, params and a handler
C7_Witness ==
    /\ last.op = "Reset"
    /\ last.keys = Keys
    /\ last.dkeys # {}
    /\ ctx.pnames # <<>>
    /\ ctx.request = "req2"

(***************************************************************************)
(* C8: after any setters, Reset followed by the same Reset leaves what one *)
(* Reset leaves, and that state has an empty data map, the not-found       *)
(* handler and no params: ParamNames() and ParamValues() empty, P(i) and   *)
(* Param(name) "".                                                         *)
(***************************************************************************)
C8_ResetLeavesNoParams ==
    last.op = "Reset" =>
        /\ Observable(Reset(ctx, last.req, last.res)) = Observable(ctx)
        /\ \A k \in Keys : GetData(ctx, k) = "nil"
        /\ Handler(ctx) = NotFoundHandler
        /\ ParamNames(ctx) = <<>>
        /\ ParamValues(ctx) = <<>>
        /\ \A i \in Indexes : P(ctx, i) = Ok("")
        /\ \A n \in ParamNameSet : Param(ctx, n) = Ok("")

(***************************************************************************)
(* C9: SetLang(s) then Language() is the first 5 characters of s when s    *)
(* has at least 5 characters, and "zh-CN" when s is shorter.               *)
(***************************************************************************)
C9_FirstFiveCharacters ==
    last.op = "SetLang" =>
        Language(ctx) = IF Len(last.arg) >= 5
                        THEN GoString(SubSeq(last.arg, 1, 5))
                        ELSE GoString(ZhCN)

(***************************************************************************)
(* C10: in every state of a context, whether or not SetLang was called,    *)
(* Language() is 5 characters long: the 5-character prefix of a supplied   *)
(* locale, or "zh-CN".                                                     *)
(***************************************************************************)
C10_LanguageAlwaysNormalized ==
    last.op \in {"Reset", "SetLang"} =>
    Language(ctx) \in
        {GoString(SubSeq(s, 1, 5)) : s \in {t \in Locales : Len(t) >= 5}}
            \cup {GoString(ZhCN)}

(***************************************************************************)
(* C11: after any sequence of SetParamNames, SetParamValues and Reset, and *)
(* for every integer i (negative, in range, beyond the last parameter),    *)
(* P(i) does not fail: it is the i-th parameter value when i is a valid    *)
(* index and "" when i is out of bounds.                                   *)
(***************************************************************************)
AnyIndexes == (0 - 2)..(MaxParams + 1)

ValidIndex(c, i) == i >= 0 /\ i < Len(c.pnames) /\ i < Len(c.pvalues)

C11_PNeverFails ==
    last.op \in {"Reset", "SetParamNames", "SetParamValues"} =>
        \A i \in AnyIndexes :
            P(ctx, i) = IF ValidIndex(ctx, i) THEN Ok(ctx.pvalues[i + 1]) ELSE Ok("")

(***************************************************************************)
(* C12: on a context whose names and values were installed with            *)
(* SetParamNames(names) and SetParamValues(values), Param(name) is         *)
(* values[i] for the smallest i with names[i] = name, also when the name   *)
(* occurs twice, and "" when the name is absent; with names ("id") and     *)
(* values ("42"), Param("id") = "42", P(0) = "42" and P(5) = "".           *)
(***************************************************************************)
LookedUpNames == RouteParamNames \cup {"absent"}

Matches(names, name) == {i \in 1..Len(names) : names[i] = name}

Smallest(S) == CHOOSE i \in S : \A j \in S : i <= j

\* both sequences are non-empty only after both setters were called
C12_ParamFirstMatch ==
    (ctx.pnames # <<>> /\ ctx.pvalues # <<>>) =>
        /\ \A name \in LookedUpNames :
               LET at == Matches(ctx.pnames, name) IN
               IF at = {}
               THEN Param(ctx, name) = Ok("")
               ELSE /\ Smallest(at) <= Len(ctx.pvalues)
                    /\ Param(ctx, name) = Ok(ctx.pvalues[Smallest(at)])
        /\ (ctx.pnames = <<"id">> /\ ctx.pvalues = <<"42">>) =>
               /\ Param(ctx, "id") = Ok("42")
               /\ P(ctx, 0) = Ok("42")
               /\ P(ctx, 5) = Ok("")

(***************************************************************************)
(* C13: in every state reached by SetParamNames, SetParamValues and Reset  *)
(* calls in any order with any arguments, the parameter names and the      *)
(* parameter values have the same length.                                  *)
(***************************************************************************)
C13_NamesAndValuesSameLength ==
    last.op \in {"Reset", "SetParamNames", "SetParamValues"} =>
        Len(ParamNames(ctx)) = Len(ParamValues(ctx))

(***************************************************************************)
(* C14: when requests run concurrently through one validation middleware,  *)
(* the nil test, the body validation and the path validation of a request  *)
(* all use the rule set looked up for that request's own method and path,  *)
(* and the request returns what it returns when it is served alone.        *)
(***************************************************************************)
OwnRules(r) == validator_Find(flight[r].c.method, flight[r].c.path)

UsesOwn(r, read) == read \in {"unread", OwnRules(r)}

ServedAlone(r) ==
    ValidatorHandler_Find(chain[1].config, 1, flight[r].c,
                          TerminalHandler(flight[r].c)).ret

C14_OwnRuleSetOnly ==
    \A r \in RequestIds :
        flight[r].pc # "idle" =>
            /\ UsesOwn(r, flight[r].seen)
            /\ UsesOwn(r, flight[r].body)
            /\ UsesOwn(r, flight[r].url)
            /\ (flight[r].body # "unread" /\ flight[r].url # "unread") =>
                   flight[r].body = flight[r].url
            /\ flight[r].pc = "done" => flight[r].ret = ServedAlone(r)

(***************************************************************************)
(* C2: a request for which the skip predicate holds, or for whose method   *)
(* and path no rule set is configured, goes through the middleware         *)
(* untouched, also while other requests are in it: no validation runs, no  *)
(* formatter runs, next is called and its result is what is returned.      *)
(***************************************************************************)
SkipsInFlight(r) ==
    chain[1].given.Skipper = "customSkipper" /\ flight[r].c.path = SkipPath

C2_BypassIsTransparent ==
    \A r \in RequestIds :
        (flight[r].pc # "idle" /\ (SkipsInFlight(r) \/ OwnRules(r) = "nil")) =>
            /\ flight[r].body = "unread"
            /\ flight[r].url = "unread"
            /\ flight[r].pc = "done" =>
                   /\ flight[r].next
                   /\ flight[r].ret = TerminalHandler(flight[r].c).ret

====
